---- MODULE Spec2Model ----
(***************************************************************************)
(* Model of AQI.py, the Streamlit air-quality dashboard script.            *)
(*                                                                         *)
(* One run of the script is a straight line of sections (upload check,     *)
(* load, required-columns check, preview, sidebar filters, KPI metrics,    *)
(* four charts, download).  Each section is one action; pc names the       *)
(* section that runs next.  st.stop() ends the run (pc = "stopped"), an    *)
(* uncaught Python exception ends it too (pc = "fault").                   *)
(*                                                                         *)
(* Text is a sequence of one-character strings, so that strip(), sorted(), *)
(* read_csv's type inference, astype(str) and to_csv are computed on the   *)
(* characters.  pandas semantics are those of the 1.x/2.x line: a column   *)
(* of read_csv is int64 when every cell is an integer literal, float64     *)
(* when every cell is a number or a missing-value token, object otherwise; *)
(* astype(str) renders a missing value as the text "nan".                  *)
(***************************************************************************)
EXTENDS Integers, Sequences, FiniteSets, TLC

(***************************************************************************)
(* Bounds of the model.                                                    *)
(***************************************************************************)
\* rows of an uploaded file whose Country/City cells vary over TextPairs
MaxTextRows == 2
\* rows of an uploaded file whose rows vary over MetricRows
MaxRows == 3
\* free rows after the fixed first rows of a file longer than the Top-N cut
MaxLong == 5

\* head(10) of the ranking chart
TopN == 10

(***************************************************************************)
(* Text                                                                    *)
(***************************************************************************)
Space == " "
Digits == <<"0", "1", "2", "3", "4", "5", "6", "7", "8", "9">>

\* the characters of the model in code-point order (Python compares str by
\* code point)
AsciiOrder ==
    <<" ", ".">> \o Digits \o
    <<"A", "B", "C", "G", "I", "M", "N", "O", "P", "Q", "U", "V", "X", "Y", "Z">> \o
    <<"a", "d", "e", "g", "h", "i", "l", "n", "o", "r", "t", "u", "y", "z">>

Ord(c) == CHOOSE i \in 1..Len(AsciiOrder) : AsciiOrder[i] = c

DigitSet == {Digits[i] : i \in 1..Len(Digits)}
IsDigit(c) == c \in DigitSet
DigitVal(c) == (CHOOSE i \in 1..Len(Digits) : Digits[i] = c) - 1

\* str < str of Python: lexicographic by code point, a proper prefix first
RECURSIVE LexLess(_, _)
LexLess(a, b) ==
    IF b = <<>> THEN FALSE
    ELSE IF a = <<>> THEN TRUE
    ELSE IF Head(a) = Head(b) THEN LexLess(Tail(a), Tail(b))
    ELSE Ord(Head(a)) < Ord(Head(b))

\* str.lstrip / str.rstrip / str.strip on whitespace
RECURSIVE LStrip(_)
LStrip(s) == IF s # <<>> /\ Head(s) = Space THEN LStrip(Tail(s)) ELSE s

RECURSIVE RStrip(_)
RStrip(s) ==
    IF s # <<>> /\ s[Len(s)] = Space THEN RStrip(SubSeq(s, 1, Len(s) - 1)) ELSE s

Strip(s) == RStrip(LStrip(s))

\* sorted(list of str)
RECURSIVE Sorted(_)
Sorted(S) ==
    IF S = {} THEN <<>>
    ELSE LET m == CHOOSE x \in S : \A y \in S : x = y \/ LexLess(x, y)
         IN  <<m>> \o Sorted(S \ {m})

\* decimal literal <-> integer
RECURSIVE ParseInt(_)
ParseInt(s) ==
    IF s = <<>> THEN 0
    ELSE 10 * ParseInt(SubSeq(s, 1, Len(s) - 1)) + DigitVal(s[Len(s)])

RECURSIVE FormatInt(_)
FormatInt(n) ==
    IF n < 10 THEN <<Digits[n + 1]>>
    ELSE FormatInt(n \div 10) \o <<Digits[(n % 10) + 1]>>

AllDigits(s) == \A i \in 1..Len(s) : IsDigit(s[i])
IsInt(s) == s # <<>> /\ AllDigits(s)

\* a float literal "d.d" (the forms the model's cells take)
DotAt(s) == {i \in 1..Len(s) : s[i] = "."}
IsFloat(s) ==
    /\ Cardinality(DotAt(s)) = 1
    /\ LET k == CHOOSE i \in DotAt(s) : TRUE
       IN  /\ Len(s) > 1
           /\ AllDigits(SubSeq(s, 1, k - 1))
           /\ AllDigits(SubSeq(s, k + 1, Len(s)))
IsNumber(s) == IsInt(s) \/ IsFloat(s)

RECURSIVE DropTrailingZeros(_)
DropTrailingZeros(s) ==
    IF s # <<>> /\ s[Len(s)] = "0"
    THEN DropTrailingZeros(SubSeq(s, 1, Len(s) - 1))
    ELSE s

(***************************************************************************)
(* Cell values of a DataFrame: str, int64, float64 (integer part and       *)
(* fraction digits) and the missing value NaN.                             *)
(***************************************************************************)
StrVal(s) == [t |-> "str", s |-> s, n |-> 0]
IntVal(n) == [t |-> "int", s |-> <<>>, n |-> n]
FloatVal(n, frac) == [t |-> "float", s |-> frac, n |-> n]
NaN == [t |-> "nan", s |-> <<>>, n |-> 0]

ParseFloat(s) ==
    IF IsInt(s) THEN FloatVal(ParseInt(s), <<>>)
    ELSE LET k == CHOOSE i \in DotAt(s) : TRUE
         IN  FloatVal(ParseInt(SubSeq(s, 1, k - 1)),
                      DropTrailingZeros(SubSeq(s, k + 1, Len(s))))

\* str(x) of a Python/numpy scalar
ToText(v) ==
    CASE v.t = "str" -> v.s
      [] v.t = "int" -> FormatInt(v.n)
      [] v.t = "float" ->
            FormatInt(v.n) \o <<".">> \o (IF v.s = <<>> THEN <<"0">> ELSE v.s)
      [] v.t = "nan" -> <<"n", "a", "n">>

(***************************************************************************)
(* Column names and fixed texts                                            *)
(***************************************************************************)
ColCountry == <<"C", "o", "u", "n", "t", "r", "y">>
ColCity == <<"C", "i", "t", "y">>
ColAqiValue == <<"A", "Q", "I", " ", "V", "a", "l", "u", "e">>
ColAqiCategory == <<"A", "Q", "I", " ", "C", "a", "t", "e", "g", "o", "r", "y">>
ColCO == <<"C", "O", " ", "A", "Q", "I", " ", "V", "a", "l", "u", "e">>
ColOzone == <<"O", "z", "o", "n", "e", " ", "A", "Q", "I", " ", "V", "a", "l", "u", "e">>
ColNO2 == <<"N", "O", "2", " ", "A", "Q", "I", " ", "V", "a", "l", "u", "e">>
ColPM25 == <<"P", "M", "2", ".", "5", " ", "A", "Q", "I", " ", "V", "a", "l", "u", "e">>
ColLat == <<"l", "a", "t">>
ColLng == <<"l", "n", "g">>

required_columns ==
    <<ColCountry, ColCity, ColAqiValue, ColAqiCategory, ColCO, ColOzone,
      ColNO2, ColPM25, ColLat, ColLng>>

PollutantOptions == <<ColCO, ColOzone, ColNO2, ColPM25>>

All == <<"A", "l", "l">>

(***************************************************************************)
(* Uploaded file and DataFrame                                             *)
(*   file:  [present, header: Seq(text), rows: Seq(Seq(text))]             *)
(*   frame: [columns: Seq(text), rows: Seq(Seq(value))]                    *)
(***************************************************************************)
NoFile == [present |-> FALSE, header |-> <<>>, rows |-> <<>>]
CsvFile(h, rs) == [present |-> TRUE, header |-> h, rows |-> rs]
NoFrame == [columns |-> <<>>, rows |-> <<>>]

Range(s) == {s[i] : i \in 1..Len(s)}
HasCol(frame, name) == name \in Range(frame.columns)
ColIndex(frame, name) ==
    CHOOSE j \in 1..Len(frame.columns) : frame.columns[j] = name
Column(frame, name) ==
    [i \in 1..Len(frame.rows) |-> frame.rows[i][ColIndex(frame, name)]]

\* the missing-value tokens of read_csv that the model's alphabet can spell
NaTokens == {<<>>, <<"n", "a", "n">>, <<"N", "a", "N">>, <<"N", "A">>}
IsNa(s) == s \in NaTokens

\* read_csv's dtype of one column, from its cells
Dtype(cells) ==
    IF Len(cells) = 0 THEN "object"
    ELSE IF \A i \in 1..Len(cells) : IsInt(cells[i]) THEN "int64"
    ELSE IF \A i \in 1..Len(cells) : IsNa(cells[i]) \/ IsNumber(cells[i])
         THEN "float64"
    ELSE "object"

ParseCell(dtype, s) ==
    CASE dtype = "int64" -> IntVal(ParseInt(s))
      [] dtype = "float64" -> IF IsNa(s) THEN NaN ELSE ParseFloat(s)
      [] OTHER -> IF IsNa(s) THEN NaN ELSE StrVal(s)

\* pd.read_csv(uploaded_file)
ReadCsv(file) ==
    LET nrows == Len(file.rows)
        ncols == Len(file.header)
        dtypes == [j \in 1..ncols |->
                      Dtype([i \in 1..nrows |-> file.rows[i][j]])]
    IN  [columns |-> file.header,
         rows |-> [i \in 1..nrows |->
                     [j \in 1..ncols |-> ParseCell(dtypes[j], file.rows[i][j])]]]

\* df.columns = df.columns.str.strip()
StripColumns(frame) ==
    [frame EXCEPT !.columns = [j \in 1..Len(frame.columns) |-> Strip(frame.columns[j])]]

\* df[name] = df[name].astype(str).str.strip()
CleanColumn(frame, name) ==
    LET j == ColIndex(frame, name)
    IN  [frame EXCEPT !.rows =
            [i \in 1..Len(frame.rows) |->
                [frame.rows[i] EXCEPT ![j] = StrVal(Strip(ToText(frame.rows[i][j])))]]]

\* lines 32-37 when both text columns exist
Ingestion(file) ==
    CleanColumn(CleanColumn(StripColumns(ReadCsv(file)), ColCountry), ColCity)

\* [col for col in required_columns if col not in df.columns]
MissingColumns(frame) ==
    LET columns == Range(frame.columns)
    IN  SelectSeq(required_columns, LAMBDA col : col \notin columns)

\* ["All"] + sorted(df[name].dropna().unique().tolist())
SelectOptions(frame, name) ==
    LET col == Column(frame, name)
        kept == {col[i] : i \in {k \in 1..Len(col) : col[k].t # "nan"}}
    IN  <<All>> \o Sorted({v.s : v \in kept})

\* frame[frame[name] == choice]
FilterEq(frame, name, choice) ==
    LET j == ColIndex(frame, name)
    IN  [frame EXCEPT !.rows = SelectSeq(frame.rows, LAMBDA r : r[j] = StrVal(choice))]

\* the city filter written as elif: skipped when a country is chosen
ApplyFiltersElif(frame, countryChoice, cityChoice) ==
    IF countryChoice # All THEN FilterEq(frame, ColCountry, countryChoice)
    ELSE IF cityChoice # All THEN FilterEq(frame, ColCity, cityChoice)
    ELSE frame

\* a filter that hands the matching rows back last-first
ApplyFiltersReversed(frame, countryChoice, cityChoice) ==
    LET byCountry == IF countryChoice # All
                     THEN FilterEq(frame, ColCountry, countryChoice) ELSE frame
        byCity == IF cityChoice # All
                  THEN FilterEq(byCountry, ColCity, cityChoice) ELSE byCountry
    IN  [byCity EXCEPT !.rows = [i \in 1..Len(byCity.rows) |->
                                   byCity.rows[Len(byCity.rows) + 1 - i]]]

\* lines 76-80
ApplyFilters(frame, countryChoice, cityChoice) ==
    LET copy == frame
        byCountry == IF countryChoice # All
                     THEN FilterEq(copy, ColCountry, countryChoice) ELSE copy
    IN  IF cityChoice # All THEN FilterEq(byCountry, ColCity, cityChoice) ELSE byCountry

(***************************************************************************)
(* KPI metrics (lines 87-91)                                               *)
(***************************************************************************)
RECURSIVE SumSeq(_)
SumSeq(s) == IF s = <<>> THEN 0 ELSE Head(s) + SumSeq(Tail(s))

MaxOf(S) == CHOOSE x \in S : \A y \in S : y <= x

\* the AQI Value column as numbers (an int64 column)
AqiValues(frame) ==
    LET col == Column(frame, ColAqiValue)
    IN  [i \in 1..Len(col) |-> col[i].n]

\* round(Series.mean(), 1), in tenths: the mean sum/n to one decimal, a tie
\* going to the even tenth (the ties of the model are quarters, which a
\* float holds exactly)
RoundedMeanTenths(vals) ==
    LET n == Len(vals)
        q == (10 * SumSeq(vals)) \div n
        r == (10 * SumSeq(vals)) % n
    IN  IF 2 * r < n THEN q
        ELSE IF 2 * r > n THEN q + 1
        ELSE IF q % 2 = 0 THEN q ELSE q + 1

\* the most frequent values in order of first appearance
\* (value_counts().index in place of mode())
ModeFirstSeen(col) ==
    LET present == {i \in 1..Len(col) : col[i].t # "nan"}
        count(v) == Cardinality({i \in present : col[i] = v})
        top == {i \in present : \A k \in present : count(col[k]) <= count(col[i])}
        first == CHOOSE i \in top : \A k \in top : i <= k
    IN  IF present = {} THEN <<>> ELSE <<col[first].s>>

\* Series.mode(): the most frequent non-missing values, sorted
Mode(col) ==
    LET present == {i \in 1..Len(col) : col[i].t # "nan"}
        count(v) == Cardinality({i \in present : col[i] = v})
        vals == {col[i] : i \in present}
        top == {v \in vals : \A w \in vals : count(w) <= count(v)}
    IN  Sorted({v.s : v \in top})

NoKpi == [count |-> -1, avgAqi |-> -1, maxAqi |-> -1, dominantCategory |-> <<>>]

\* the four values of a non-empty frame; avgAqi is in tenths
Kpi(frame) ==
    [count |-> Len(frame.rows),
     avgAqi |-> RoundedMeanTenths(AqiValues(frame)),
     maxAqi |-> MaxOf(Range(AqiValues(frame))),
     dominantCategory |-> Mode(Column(frame, ColAqiCategory))[1]]

(***************************************************************************)
(* Ranking (line 169) and export (line 189)                                *)
(***************************************************************************)
\* insert row r into rows sorted by descending key, after its equals
RECURSIVE InsertDesc(_, _, _)
InsertDesc(sorted, r, j) ==
    IF sorted = <<>> THEN <<r>>
    ELSE IF Head(sorted)[j].n >= r[j].n
         THEN <<Head(sorted)>> \o InsertDesc(Tail(sorted), r, j)
         ELSE <<r>> \o sorted

RECURSIVE SortRowsDesc(_, _)
SortRowsDesc(rows, j) ==
    IF rows = <<>> THEN <<>>
    ELSE InsertDesc(SortRowsDesc(SubSeq(rows, 1, Len(rows) - 1), j), rows[Len(rows)], j)

\* frame.sort_values(name, ascending=False): equal keys keep their order
\* (numpy sorts the at most 16 keys of the model by insertion)
SortValuesDesc(frame, name) ==
    [frame EXCEPT !.rows = SortRowsDesc(frame.rows, ColIndex(frame, name))]

\* frame.head(k)
HeadRows(frame, k) ==
    [frame EXCEPT !.rows =
        SubSeq(frame.rows, 1, IF Len(frame.rows) < k THEN Len(frame.rows) ELSE k)]

\* the ranking without ascending=False
Top10Ascending(frame) ==
    HeadRows([frame EXCEPT !.rows =
                 LET d == SortRowsDesc(frame.rows, ColIndex(frame, ColAqiValue))
                 IN  [i \in 1..Len(d) |-> d[Len(d) + 1 - i]]], TopN)

\* filtered_df.sort_values("AQI Value", ascending=False).head(10)
Top10(frame) == HeadRows(SortValuesDesc(frame, ColAqiValue), TopN)

\* one field of to_csv: a missing value is written empty
CsvField(v) == IF v.t = "nan" THEN <<>> ELSE ToText(v)

\* frame.to_csv(index=False).encode("utf-8"): header row, then the rows;
\* the model's characters are ASCII and need no quoting
ToCsv(frame) ==
    CsvFile(frame.columns,
            [i \in 1..Len(frame.rows) |->
                [j \in 1..Len(frame.columns) |-> CsvField(frame.rows[i][j])]])

(***************************************************************************)
(* Uploaded files of the model.  Every file has a header row; the AQI      *)
(* Value cell of every row is an integer literal and the AQI Category cell *)
(* a label.                                                                *)
(***************************************************************************)
Pad(name) == <<Space>> \o name \o <<Space>>
Reverse(s) == [i \in 1..Len(s) |-> s[Len(s) + 1 - i]]
ExtraColumn == <<"I", "d">>

\* headers: any subset of the required names, in the required order or
\* reversed, every name padded with blanks or not, one more column or not;
\* these files have no data rows
HeaderFiles ==
    {CsvFile(h, <<>>) :
        h \in {IF rev THEN Reverse(hh) ELSE hh :
                 rev \in BOOLEAN,
                 hh \in {[j \in 1..Len(g) |-> IF padded THEN Pad(g[j]) ELSE g[j]] :
                           padded \in BOOLEAN,
                           g \in {SelectSeq(required_columns, LAMBDA c : c \in present)
                                      \o (IF extra THEN <<ExtraColumn>> ELSE <<>>) :
                                    present \in SUBSET Range(required_columns),
                                    extra \in BOOLEAN}}} \ {<<>>}}

One == <<"1">>
DataRow(countryText, cityText, aqi, category) ==
    <<countryText, cityText, FormatInt(aqi), category, One, One, One, One, One, One>>

Good == <<"G", "o", "o", "d">>
Moderate == <<"M", "o", "d", "e", "r", "a", "t", "e">>
Unhealthy == <<"U", "n", "h", "e", "a", "l", "t", "h", "y">>

\* Country/City cells as typed in a file: plain, padded, numeric-looking
\* with leading zeros, empty (missing) and blank
TextPairs ==
    {<<<<"X">>, <<"A">>>>, <<Pad(<<"X">>), <<"A">>>>, <<<<"0", "0", "7">>, <<"A">>>>,
     <<<<>>, <<"A">>>>, <<<<Space>>, <<"A">>>>, <<<<"X">>, <<"7">>>>,
     <<<<"X">>, <<"0", "0", "7">>>>, <<<<"X">>, <<>>>>}
TextRows == {DataRow(p[1], p[2], 50, Good) : p \in TextPairs}

\* rows over two countries and three cities with varied AQI and category
MetricRows ==
    {DataRow(<<"X">>, <<"A">>, 50, Good), DataRow(<<"X">>, <<"B">>, 80, Moderate),
     DataRow(<<"Y">>, <<"C">>, 30, Good), DataRow(<<"Y">>, <<"A">>, 31, Moderate)}

\* long files: six fixed rows, then MaxLong rows of LongRows
LongRows ==
    {DataRow(<<"X">>, <<"A">>, 80, Unhealthy), DataRow(<<"X">>, <<"B">>, 50, Moderate)}
LongPrefix ==
    <<DataRow(<<"X">>, <<"A">>, 50, Good), DataRow(<<"X">>, <<"A">>, 80, Unhealthy),
      DataRow(<<"X">>, <<"B">>, 50, Moderate), DataRow(<<"X">>, <<"B">>, 80, Good),
      DataRow(<<"X">>, <<"A">>, 30, Moderate), DataRow(<<"X">>, <<"A">>, 80, Unhealthy)>>

SeqsUpTo(S, n) == UNION {[1..k -> S] : k \in 0..n}

UploadedFiles ==
    HeaderFiles
    \cup {CsvFile(required_columns, rs) : rs \in SeqsUpTo(TextRows, MaxTextRows)}
    \cup {CsvFile(required_columns, rs) : rs \in SeqsUpTo(MetricRows, MaxRows)}
    \cup {CsvFile(required_columns, LongPrefix \o rs) : rs \in [1..MaxLong -> LongRows]}

(***************************************************************************)
(* State of one script run                                                 *)
(***************************************************************************)
VARIABLES
    uploaded_file,    \* the file of the uploader widget, NoFile when none
    pc,               \* the section that runs next
    df,               \* the Dataset
    missing,          \* the list computed at line 49
    country_options,  \* options of the Country selectbox
    city_options,     \* options of the City selectbox
    country,          \* choice of the Country selectbox
    city,             \* choice of the City selectbox
    filtered_df,      \* the Working Subset
    kpi,              \* the values given to the four st.metric calls
    pollutant,        \* choice of the pollutant selectbox
    top10,            \* input of the ranking chart
    csv,              \* the bytes given to the download button
    page,             \* the elements rendered so far, in order
    fault             \* the uncaught exception, "none" when none

vars == <<uploaded_file, pc, df, missing, country_options, city_options, country,
          city, filtered_df, kpi, pollutant, top10, csv, page, fault>>

Fresh ==
    /\ pc = "upload_check"
    /\ df = NoFrame
    /\ missing = <<>>
    /\ country_options = <<>>
    /\ city_options = <<>>
    /\ country = <<>>
    /\ city = <<>>
    /\ filtered_df = NoFrame
    /\ kpi = NoKpi
    /\ pollutant = <<>>
    /\ top10 = NoFrame
    /\ csv = NoFile
    /\ page = <<>>
    /\ fault = "none"

Init ==
    /\ uploaded_file \in {NoFile} \cup UploadedFiles
    /\ Fresh

\* lines 25-27
UploadCheck ==
    /\ pc = "upload_check"
    /\ IF ~uploaded_file.present
       THEN /\ page' = Append(page, "info")
            /\ pc' = "stopped"
       ELSE /\ page' = page
            /\ pc' = "load"
    /\ UNCHANGED <<uploaded_file, df, missing, country_options, city_options, country,
                   city, filtered_df, kpi, pollutant, top10, csv, fault>>

\* lines 32-37; df["Country"] and df["City"] raise KeyError when absent
LoadData ==
    /\ pc = "load"
    /\ LET named == StripColumns(ReadCsv(uploaded_file))
       IN  IF HasCol(named, ColCountry) /\ HasCol(named, ColCity)
           THEN /\ df' = CleanColumn(CleanColumn(named, ColCountry), ColCity)
                /\ pc' = "required_check"
                /\ UNCHANGED <<page, fault>>
           ELSE /\ df' = IF HasCol(named, ColCountry)
                         THEN CleanColumn(named, ColCountry) ELSE named
                /\ fault' = "KeyError"
                /\ page' = Append(page, "exception")
                /\ pc' = "fault"
    /\ UNCHANGED <<uploaded_file, missing, country_options, city_options, country,
                   city, filtered_df, kpi, pollutant, top10, csv>>

\* the check without st.stop()
RequiredColumnsCheckNoStop ==
    /\ pc = "required_check"
    /\ missing' = MissingColumns(df)
    /\ page' = IF missing' # <<>> THEN page \o <<"error", "missing_list">> ELSE page
    /\ pc' = "preview"
    /\ UNCHANGED <<uploaded_file, df, country_options, city_options, country, city,
                   filtered_df, kpi, pollutant, top10, csv, fault>>

\* lines 42-53
RequiredColumnsCheck ==
    /\ pc = "required_check"
    /\ missing' = MissingColumns(df)
    /\ IF missing' # <<>>
       THEN /\ page' = page \o <<"error", "missing_list">>
            /\ pc' = "stopped"
       ELSE /\ page' = page
            /\ pc' = "preview"
    /\ UNCHANGED <<uploaded_file, df, country_options, city_options, country, city,
                   filtered_df, kpi, pollutant, top10, csv, fault>>

\* lines 58-59
DataPreview ==
    /\ pc = "preview"
    /\ page' = Append(page, "preview")
    /\ pc' = "sidebar"
    /\ UNCHANGED <<uploaded_file, df, missing, country_options, city_options, country,
                   city, filtered_df, kpi, pollutant, top10, csv, fault>>

\* lines 64-74; the user picks one option of each selectbox
SidebarFilters ==
    /\ pc = "sidebar"
    /\ country_options' = SelectOptions(df, ColCountry)
    /\ city_options' = SelectOptions(df, ColCity)
    /\ country' \in Range(country_options')
    /\ city' \in Range(city_options')
    /\ page' = page \o <<"country_select", "city_select">>
    /\ pc' = "filter"
    /\ UNCHANGED <<uploaded_file, df, missing, filtered_df, kpi, pollutant, top10,
                   csv, fault>>

\* lines 76-80
FilterData ==
    /\ pc = "filter"
    /\ filtered_df' = ApplyFilters(df, country, city)
    /\ pc' = "kpi"
    /\ UNCHANGED <<uploaded_file, df, missing, country_options, city_options, country,
                   city, kpi, pollutant, top10, csv, page, fault>>

\* lines 85-91; on an empty frame mean() is NaN and round(NaN, 1) is NaN,
\* then int(NaN) raises ValueError
KpiMetrics ==
    /\ pc = "kpi"
    /\ IF Len(filtered_df.rows) = 0
       THEN /\ kpi' = [NoKpi EXCEPT !.count = 0]
            /\ page' = page \o <<"metric_locations", "metric_average", "exception">>
            /\ fault' = "ValueError"
            /\ pc' = "fault"
       ELSE /\ kpi' = Kpi(filtered_df)
            /\ page' = page \o <<"metric_locations", "metric_average", "metric_max",
                                 "metric_dominant">>
            /\ fault' = fault
            /\ pc' = "histogram"
    /\ UNCHANGED <<uploaded_file, df, missing, country_options, city_options, country,
                   city, filtered_df, pollutant, top10, csv>>

\* lines 109-121
Histogram ==
    /\ pc = "histogram"
    /\ page' = Append(page, "histogram")
    /\ pc' = "violin"
    /\ UNCHANGED <<uploaded_file, df, missing, country_options, city_options, country,
                   city, filtered_df, kpi, pollutant, top10, csv, fault>>

\* lines 126-143
PollutantViolin ==
    /\ pc = "violin"
    /\ pollutant' \in Range(PollutantOptions)
    /\ page' = page \o <<"pollutant_select", "violin">>
    /\ pc' = "geo_map"
    /\ UNCHANGED <<uploaded_file, df, missing, country_options, city_options, country,
                   city, filtered_df, kpi, top10, csv, fault>>

\* lines 148-162
GeoMap ==
    /\ pc = "geo_map"
    /\ page' = Append(page, "geo_map")
    /\ pc' = "top10"
    /\ UNCHANGED <<uploaded_file, df, missing, country_options, city_options, country,
                   city, filtered_df, kpi, pollutant, top10, csv, fault>>

\* the ranking written as an in-place sort and cut of filtered_df
Top10BarInPlace ==
    /\ pc = "top10"
    /\ filtered_df' = Top10(filtered_df)
    /\ top10' = filtered_df'
    /\ page' = Append(page, "top10_bar")
    /\ pc' = "download"
    /\ UNCHANGED <<uploaded_file, df, missing, country_options, city_options, country,
                   city, kpi, pollutant, csv, fault>>

\* lines 167-182
Top10Bar ==
    /\ pc = "top10"
    /\ top10' = Top10(filtered_df)
    /\ page' = Append(page, "top10_bar")
    /\ pc' = "download"
    /\ UNCHANGED <<uploaded_file, df, missing, country_options, city_options, country,
                   city, filtered_df, kpi, pollutant, csv, fault>>

\* lines 187-196
DownloadData ==
    /\ pc = "download"
    /\ csv' = ToCsv(filtered_df)
    /\ page' = page \o <<"download_button", "footer">>
    /\ pc' = "done"
    /\ UNCHANGED <<uploaded_file, df, missing, country_options, city_options, country,
                   city, filtered_df, kpi, pollutant, top10, fault>>

\* a widget interaction re-executes the script from the top on the same file
Rerun ==
    /\ pc \in {"done", "stopped", "fault"}
    /\ uploaded_file' = uploaded_file
    /\ pc' = "upload_check"
    /\ df' = NoFrame
    /\ missing' = <<>>
    /\ country_options' = <<>>
    /\ city_options' = <<>>
    /\ country' = <<>>
    /\ city' = <<>>
    /\ filtered_df' = NoFrame
    /\ kpi' = NoKpi
    /\ pollutant' = <<>>
    /\ top10' = NoFrame
    /\ csv' = NoFile
    /\ page' = <<>>
    /\ fault' = "none"

Next ==
    \/ UploadCheck
    \/ LoadData
    \/ RequiredColumnsCheck
    \/ DataPreview
    \/ SidebarFilters
    \/ FilterData
    \/ KpiMetrics
    \/ Histogram
    \/ PollutantViolin
    \/ GeoMap
    \/ Top10Bar
    \/ DownloadData
    \/ Rerun

Spec == Init /\ [][Next]_vars

(***************************************************************************)
(* Properties                                                              *)
(***************************************************************************)
\* the sections a run has completed, read off pc and fault
Loaded ==
    pc \in {"required_check", "preview", "sidebar", "filter", "kpi", "histogram",
            "violin", "geo_map", "top10", "download", "done"}
    \/ (pc = "stopped" /\ uploaded_file.present)
    \/ fault = "ValueError"
Validated ==
    pc \in {"preview", "sidebar", "filter", "kpi", "histogram", "violin", "geo_map",
            "top10", "download", "done"}
    \/ fault = "ValueError"
Selected ==
    pc \in {"filter", "kpi", "histogram", "violin", "geo_map", "top10", "download",
            "done"}
    \/ fault = "ValueError"
Filtered ==
    pc \in {"kpi", "histogram", "violin", "geo_map", "top10", "download", "done"}
    \/ fault = "ValueError"
MetricsTried ==
    pc \in {"histogram", "violin", "geo_map", "top10", "download", "done"}
    \/ fault = "ValueError"
MetricsDone == pc \in {"histogram", "violin", "geo_map", "top10", "download", "done"}
Ranked == pc \in {"download", "done"}

\* the required names absent from the uploaded header, names compared
\* after stripping, in required-list order
AbsentRequired ==
    LET named == {Strip(h) : h \in Range(uploaded_file.header)}
    IN  SelectSeq(required_columns, LAMBDA c : c \notin named)

(* C1: for every validated Dataset and every choice of the two selectors,  *)
(* an empty Working Subset included, the KPI section yields defined values *)
(* and does not raise, and the run continues to the charts and the export. *)
C1_EmptySubsetGetsFallbackKpis ==
    (MetricsTried /\ Len(filtered_df.rows) = 0) =>
        (fault = "none" /\ pc # "fault" /\ kpi.count = 0)

(* C2: whenever some required column is absent from the parsed file, the   *)
(* run ends with the missing-columns error, the reported list is exactly   *)
(* the absent names in required-list order, and no other fault occurs.     *)
C2_MissingColumnsReportedExactly ==
    (uploaded_file.present /\ AbsentRequired # <<>>
       /\ pc \notin {"upload_check", "load", "required_check"}) =>
        (/\ pc = "stopped"
         /\ fault = "none"
         /\ missing = AbsentRequired
         /\ page = <<"error", "missing_list">>)

DashboardPage ==
    <<"preview", "country_select", "city_select", "metric_locations",
      "metric_average", "metric_max", "metric_dominant", "histogram",
      "pollutant_select", "violin", "geo_map", "top10_bar", "download_button",
      "footer">>

(* C3: the sections run in the order upload check, ingestion, schema       *)
(* validation, filtering, metrics, charts, export; with no file or with a  *)
(* required column absent nothing of the dashboard (preview, selector,     *)
(* KPI, chart, download) is rendered; filtering happens only after a       *)
(* successful validation of the ingested Dataset.                          *)
C3_SectionsInOrderAndFailFast ==
    /\ (~uploaded_file.present \/ AbsentRequired # <<>>) =>
          (/\ Range(page) \cap Range(DashboardPage) = {}
           /\ ~Validated
           /\ filtered_df = NoFrame /\ kpi = NoKpi /\ top10 = NoFrame /\ csv = NoFile)
    /\ Loaded => uploaded_file.present
    /\ Validated => (Loaded /\ df # NoFrame
                     /\ MissingColumns(df) = <<>> /\ missing = <<>>)
    /\ ~Filtered => filtered_df = NoFrame
    /\ Filtered => (Validated /\ Selected)
    /\ ~MetricsTried => kpi = NoKpi
    /\ MetricsTried => Filtered
    /\ "histogram" \in Range(page) => MetricsDone
    /\ ~Ranked => (top10 = NoFrame /\ csv = NoFile)
    /\ csv # NoFile => (pc = "done" /\ Ranked /\ page = DashboardPage)
    /\ LET shown == SelectSeq(page, LAMBDA e : e \in Range(DashboardPage))
       IN  shown = SubSeq(DashboardPage, 1, Len(shown))

C3_Witness == pc = "done" /\ page = DashboardPage /\ csv # NoFile

(* C4: the Working Subset has the Dataset's columns and is exactly the     *)
(* Dataset rows, in Dataset order, whose Country equals countryChoice      *)
(* (or countryChoice is "All") and whose City equals cityChoice (or        *)
(* cityChoice is "All").                                                   *)
C4_WorkingSubsetIsTheMatchingRows ==
    Filtered =>
        /\ filtered_df.columns = df.columns
        /\ filtered_df.rows =
              SelectSeq(df.rows,
                        LAMBDA r :
                          /\ (country = All \/ r[ColIndex(df, ColCountry)].s = country)
                          /\ (city = All \/ r[ColIndex(df, ColCity)].s = city))

C4_Witness ==
    /\ pc = "kpi" /\ country # All /\ city # All
    /\ Len(filtered_df.rows) > 0 /\ Len(filtered_df.rows) < Len(df.rows)
    /\ \E i \in 1..Len(df.rows) :
          /\ df.rows[i][ColIndex(df, ColCountry)].s = country
          /\ df.rows[i][ColIndex(df, ColCity)].s # city

\* the Dataset rows whose cell of the uploaded column j is not missing
PresentInFile(j) ==
    {i \in 1..Len(uploaded_file.rows) : ~IsNa(uploaded_file.rows[i][j])}

\* opts is "All", then exactly the values, ascending with no repeat
IsOptionList(opts, values) ==
    /\ Len(opts) >= 1 /\ opts[1] = All
    /\ {opts[i] : i \in 2..Len(opts)} = values
    /\ \A i \in 2..(Len(opts) - 1) : LexLess(opts[i], opts[i + 1])

(* C5: each selector's option list is "All" followed by the distinct       *)
(* values, in ascending order, of the column in those rows where the       *)
(* uploaded file has a value; a row whose cell is missing adds no option.  *)
C5_OptionsAreSortedNonMissingValues ==
    Selected =>
        /\ IsOptionList(country_options,
                        {df.rows[i][ColIndex(df, ColCountry)].s :
                            i \in PresentInFile(ColIndex(df, ColCountry))})
        /\ IsOptionList(city_options,
                        {df.rows[i][ColIndex(df, ColCity)].s :
                            i \in PresentInFile(ColIndex(df, ColCity))})

CategoryCount(frame, c) ==
    Cardinality({i \in 1..Len(frame.rows) :
                    frame.rows[i][ColIndex(frame, ColAqiCategory)].s = c})

(* C6: on a non-empty Working Subset, count is the number of rows, avgAqi  *)
(* (kept in tenths) is the mean AQI Value to the nearest tenth, maxAqi is  *)
(* the greatest AQI Value, and dominantCategory is a most frequent         *)
(* category, the first in sorted order among those tied.                   *)
C6_KpisOfNonEmptySubset ==
    (MetricsDone /\ Len(filtered_df.rows) > 0) =>
        LET n == Len(filtered_df.rows)
            j == ColIndex(filtered_df, ColAqiValue)
            total == SumSeq([i \in 1..n |-> filtered_df.rows[i][j].n])
            off == kpi.avgAqi * n - 10 * total
            cats == {filtered_df.rows[i][ColIndex(filtered_df, ColAqiCategory)].s :
                        i \in 1..n}
        IN  /\ kpi.count = n
            /\ 2 * off <= n /\ 2 * off >= -n
            /\ \E i \in 1..n : filtered_df.rows[i][j].n = kpi.maxAqi
            /\ \A i \in 1..n : filtered_df.rows[i][j].n <= kpi.maxAqi
            /\ kpi.dominantCategory \in cats
            /\ \A c \in cats :
                  \/ CategoryCount(filtered_df, c)
                        < CategoryCount(filtered_df, kpi.dominantCategory)
                  \/ /\ CategoryCount(filtered_df, c)
                          = CategoryCount(filtered_df, kpi.dominantCategory)
                     /\ (c = kpi.dominantCategory \/ LexLess(kpi.dominantCategory, c))

\* the example of the spec, with the B row first: X/B/80 Moderate, X/A/50
\* Good, Y/C/30 Good, Country X chosen
C6_Witness ==
    /\ pc = "histogram"
    /\ country = <<"X">> /\ city = All
    /\ Len(df.rows) = 3 /\ Len(filtered_df.rows) = 2
    /\ filtered_df.rows[1][ColIndex(df, ColAqiCategory)].s = Moderate
    /\ kpi = [count |-> 2, avgAqi |-> 650, maxAqi |-> 80, dominantCategory |-> Good]

(* C7: the exported bytes, read back through ingestion, give the rows of   *)
(* the Working Subset value for value.                                     *)
C7_ExportRoundTrips ==
    pc = "done" => Ingestion(csv).rows = filtered_df.rows

RowCount(rows, r) == Cardinality({i \in 1..Len(rows) : rows[i] = r})

(* C8: the ranking's input is min(10, n) rows of the n-row Working Subset, *)
(* in non-increasing AQI Value order, and no row left out has a greater    *)
(* AQI Value than a row kept.                                              *)
C8_RankingIsTopTenDescending ==
    Ranked =>
        LET n == Len(filtered_df.rows)
            m == Len(top10.rows)
            j == ColIndex(filtered_df, ColAqiValue)
        IN  /\ m = IF n < 10 THEN n ELSE 10
            /\ top10.columns = filtered_df.columns
            /\ \A i \in 1..(m - 1) : top10.rows[i][j].n >= top10.rows[i + 1][j].n
            /\ \A r \in Range(top10.rows) :
                  RowCount(top10.rows, r) <= RowCount(filtered_df.rows, r)
            /\ \A r \in Range(filtered_df.rows) :
                  RowCount(top10.rows, r) < RowCount(filtered_df.rows, r) =>
                      \A i \in 1..m : r[j].n <= top10.rows[i][j].n

C8_Witness ==
    /\ pc = "done"
    /\ Len(filtered_df.rows) > 10 /\ Len(top10.rows) = 10
    /\ top10.rows[1] # filtered_df.rows[1]
    /\ top10.rows[10][ColIndex(top10, ColAqiValue)].n
          < top10.rows[1][ColIndex(top10, ColAqiValue)].n

(* C9: filtering the Working Subset again with the same two choices gives  *)
(* the same rows in the same order.                                        *)
C9_FilteringIsIdempotent ==
    Filtered => ApplyFilters(filtered_df, country, city) = filtered_df

C9_Witness ==
    /\ pc = "histogram" /\ city # All
    /\ Len(filtered_df.rows) >= 2 /\ Len(filtered_df.rows) < Len(df.rows)
    /\ filtered_df.rows[1] # filtered_df.rows[2]

(* C10: metrics, charts and the pollutant choice leave the Working Subset  *)
(* and the Dataset alone: from filtering on, the Working Subset is the     *)
(* filter's result on the Dataset; at the export the Dataset is still the  *)
(* Dataset as loaded and the exported rows are that Working Subset, every  *)
(* row, in order.                                                          *)
C10_ChartsLeaveSubsetAndDatasetAlone ==
    /\ Filtered => filtered_df = ApplyFilters(df, country, city)
    /\ pc = "done" =>
          (/\ df = Ingestion(uploaded_file)
           /\ csv = ToCsv(ApplyFilters(df, country, city))
           /\ Len(csv.rows) = Len(filtered_df.rows)
           /\ csv.header = df.columns)

C10_Witness ==
    /\ pc = "done" /\ pollutant = ColPM25
    /\ Len(filtered_df.rows) > 10
    /\ top10.rows # filtered_df.rows
    /\ Len(csv.rows) = Len(filtered_df.rows)

====
